---- MODULE Spec2Model ----
(***************************************************************************)
(* Model of the scheduling core of custom-scheduler-v2                     *)
(* (src/src/custom_scheduler/core.py) and of the driver that calls it and  *)
(* submits its result, call by call                                        *)
(* (src/src/custom_scheduler/api_components.py, driver.py).                *)
(*                                                                         *)
(* Names are Python strings.  The code orders them with the built-in       *)
(* string comparison; NameOrder lists the names used here in that order    *)
(* and Rank is the position of a name in it.                               *)
(***************************************************************************)
EXTENDS Integers, Sequences, FiniteSets, TLC

VARIABLES
    nodes,          \* NodePodState.nodes: sequence of node names
    pods,           \* NodePodState.pods: sequence of pod records
    preempt,        \* the preempt argument of schedule
    pc,             \* where the program is: "start", "loop", "done" (schedule
                    \* about to be called, in its loop, returned), "raised"
                    \* (schedule raised), "list_node", "list_pods" (get_state),
                    \* "crashed" (a call to the API raised: main has ended)
    raised,         \* "none", or the exception schedule raised
    pending_gangs,  \* schedule's sorted list of gangs with a pending pod
    idx,            \* position of the for loop of schedule in pending_gangs
    current_nodes,  \* schedule's current_nodes (node names, in list order)
    current_pods,   \* schedule's current_pods (pod records, in list order)
    all_bindings,   \* schedule's all_bindings: records [pod, node]
    all_evictions,  \* schedule's all_evictions: pod names
    trace,          \* history: what each process_gang call returned
    cycle,          \* number of the schedule call on this cluster (1, 2, ..)
    prev,           \* history: what the previous schedule call returned and
                    \* what the API server listed after it
    api_calls,      \* the evict and bind calls the driver made in this cycle
    heap,           \* the list objects: object -> its elements
    ref             \* the names bound to a list object: name -> object

vars == <<nodes, pods, preempt, pc, raised, pending_gangs, idx, current_nodes,
          current_pods, all_bindings, all_evictions, trace, cycle, prev,
          api_calls, heap, ref>>

(***************************************************************************)
(* Bounds of the model.                                                    *)
(***************************************************************************)
MaxPods == 3
MaxNodes == 2
MaxCycles == 2

(***************************************************************************)
(* Constants of the program and the values the inputs are drawn from.      *)
(***************************************************************************)
GROUP_NAME_ANNOTATION == "custom-scheduling.k8s.io/group-name"
MIN_AVAILABLE_ANNOTATION == "custom-scheduling.k8s.io/minAvailable"

\* MIN_AVAILABLE_ANNOTATION of core_k8s.py
MIN_AVAILABLE_ANNOTATION_K8S == "custom-scheduling.k8s.io/min-available"

SchedulerName == "S"

NodeNames == <<"node-a", "node-b", "node-c", "node-d">>
PodNames == <<"pod1", "pod2", "pod3", "pod4", "pod5">>
GroupNames == {"g1"}
Priorities == {5, 10, 20}
MinAvailableValues == {"2"}

\* The names of the model in the order of Python's string comparison.
NameOrder == <<"g1", "g2", "node-a", "node-b", "node-c", "node-d",
               "pod1", "pod2", "pod3", "pod4", "pod5">>

Rank == [s \in {NameOrder[i] : i \in 1..Len(NameOrder)} |->
            CHOOSE i \in 1..Len(NameOrder) : NameOrder[i] = s]

\* int(): the decimal strings of the model and their values.
IntLiterals == ("-1" :> (0 - 1)) @@ ("0" :> 0) @@ ("1" :> 1) @@ ("2" :> 2)
               @@ ("3" :> 3) @@ ("4" :> 4)

(***************************************************************************)
(* Helpers on sequences used as Python lists and insertion-ordered dicts.  *)
(***************************************************************************)
Range(s) == {s[i] : i \in 1..Len(s)}

Min2(a, b) == IF a <= b THEN a ELSE b

Take(s, n) == IF n <= 0 THEN <<>> ELSE SubSeq(s, 1, Min2(n, Len(s)))

\* [x.name for x in s]
NamesOf(s) == [i \in 1..Len(s) |-> s[i].name]

\* d[k] = k on a dict of names: a new key goes last, an old one stays put
PutName(s, k) == IF k \in Range(s) THEN s ELSE Append(s, k)

\* d[p.name] = p on a dict of pods keyed by name
PutPod(s, p) ==
    IF \E i \in 1..Len(s) : s[i].name = p.name
    THEN [i \in 1..Len(s) |-> IF s[i].name = p.name THEN p ELSE s[i]]
    ELSE Append(s, p)

(***************************************************************************)
(* Pod predicates and accessors.                                           *)
(***************************************************************************)
get_pod_priority(pod) == pod.priority

is_pending(pod) == pod.phase = "Pending"

is_running(pod) == pod.phase = "Running" /\ pod.node_name # ""

get_annotation(pod, key, default) ==
    IF DOMAIN pod.annotations = {} THEN default
    ELSE IF key \in DOMAIN pod.annotations THEN pod.annotations[key]
    ELSE default

\* NodePodState.get_node: TRUE when the lookup succeeds, FALSE for KeyError
HasNode(name) == name \in Range(nodes)

\* the group key of a pod (first pass of get_gang_info)
GroupKey(pod) ==
    LET group_name == get_annotation(pod, GROUP_NAME_ANNOTATION, "")
    IN  IF group_name = "" THEN pod.name ELSE group_name

(***************************************************************************)
(* get_gang_info: the gangs of a list of pods, in order of first           *)
(* appearance, with min_available and priority aggregated over ALL the     *)
(* pods of the gang.                                                       *)
(***************************************************************************)
MaxOf(S) == CHOOSE x \in S : \A y \in S : y <= x

RECURSIVE CollectKeys(_, _)
CollectKeys(ps, acc) ==
    IF ps = <<>> THEN acc
    ELSE CollectKeys(Tail(ps), PutName(acc, GroupKey(Head(ps))))

\* int(get_annotation(pod, MIN_AVAILABLE_ANNOTATION, "1")) raises ValueError
MinAvailableRaises(pod) ==
    get_annotation(pod, MIN_AVAILABLE_ANNOTATION, "1") \notin DOMAIN IntLiterals

PodMinAvailable(pod) ==
    IntLiterals[get_annotation(pod, MIN_AVAILABLE_ANNOTATION, "1")]

get_gang_info_raises(ps) == \E i \in 1..Len(ps) : MinAvailableRaises(ps[i])

\* faulty variant of GangMinAvailable: only the Pending pods count
GangMinAvailablePending(members) ==
    MaxOf({1} \cup {PodMinAvailable(p) : p \in {q \in Range(members) : is_pending(q)}})

\* line 188: the maximum over all the pods of the gang
GangMinAvailable(members) == MaxOf({PodMinAvailable(p) : p \in Range(members)})

get_gang_info(ps) ==
    LET keys == CollectKeys(ps, <<>>)
        members(k) == SelectSeq(ps, LAMBDA p : GroupKey(p) = k)
    IN  [i \in 1..Len(keys) |->
            [group_name    |-> keys[i],
             min_available |-> GangMinAvailable(members(keys[i])),
             pods          |-> members(keys[i]),
             priority      |-> MaxOf({get_pod_priority(p) : p \in Range(members(keys[i]))})]]

\* GangInfo.is_single_pod
is_single_pod(gang) == gang.min_available <= 1

(***************************************************************************)
(* get_gang_sort_key with the default order DESCENDING, and Python's       *)
(* comparison of the key tuples (False < True for the second component).   *)
(***************************************************************************)
BoolRank(b) == IF b THEN 1 ELSE 0

\* faulty variant of get_gang_sort_key: the priority is not negated
get_gang_sort_key_ascending(gang) ==
    <<gang.priority, BoolRank(~is_single_pod(gang)), gang.min_available,
      Rank[gang.group_name]>>

get_gang_sort_key(gang) ==
    <<0 - gang.priority, BoolRank(~is_single_pod(gang)), gang.min_available,
      Rank[gang.group_name]>>

RECURSIVE TupleLess(_, _)
TupleLess(a, b) ==
    IF a = <<>> \/ b = <<>> THEN Len(a) < Len(b)
    ELSE IF Head(a) # Head(b) THEN Head(a) < Head(b)
    ELSE TupleLess(Tail(a), Tail(b))

GangLess(g, h) == TupleLess(get_gang_sort_key(g), get_gang_sort_key(h))

\* faulty variant of RunningLess: the running pods are ranked by name alone
RunningLessByName(p, q) == Rank[p.name] < Rank[q.name]

\* key of sorted(running_pods.values(), ...) in process_gang
RunningLess(p, q) ==
    TupleLess(<<get_pod_priority(p), Rank[p.name]>>,
              <<get_pod_priority(q), Rank[q.name]>>)

\* key of available_nodes.sort in schedule
NodeLess(m, n) == Rank[m] < Rank[n]

(***************************************************************************)
(* list.sort / sorted: stable insertion sorts, one per key.                *)
(***************************************************************************)
RECURSIVE InsertGang(_, _)
InsertGang(s, g) ==
    IF s = <<>> THEN <<g>>
    ELSE IF GangLess(g, Head(s)) THEN <<g>> \o s
    ELSE <<Head(s)>> \o InsertGang(Tail(s), g)

RECURSIVE SortGangs(_)
SortGangs(s) ==
    IF s = <<>> THEN <<>>
    ELSE InsertGang(SortGangs(SubSeq(s, 1, Len(s) - 1)), s[Len(s)])

RECURSIVE InsertRunning(_, _)
InsertRunning(s, p) ==
    IF s = <<>> THEN <<p>>
    ELSE IF RunningLess(p, Head(s)) THEN <<p>> \o s
    ELSE <<Head(s)>> \o InsertRunning(Tail(s), p)

RECURSIVE SortRunning(_)
SortRunning(s) ==
    IF s = <<>> THEN <<>>
    ELSE InsertRunning(SortRunning(SubSeq(s, 1, Len(s) - 1)), s[Len(s)])

RECURSIVE InsertNode(_, _)
InsertNode(s, n) ==
    IF s = <<>> THEN <<n>>
    ELSE IF NodeLess(n, Head(s)) THEN <<n>> \o s
    ELSE <<Head(s)>> \o InsertNode(Tail(s), n)

RECURSIVE SortNodes(_)
SortNodes(s) ==
    IF s = <<>> THEN <<>>
    ELSE InsertNode(SortNodes(SubSeq(s, 1, Len(s) - 1)), s[Len(s)])

(***************************************************************************)
(* process_gang.  The result carries the four fields of                   *)
(* GangSchedulingResult and "raised": "none", or the exception raised.     *)
(***************************************************************************)
GangResult(b, e, n, r, x) ==
    [bindings |-> b, evictions |-> e, available_nodes |-> n,
     running_pods |-> r, raised |-> x]

RECURSIVE PutNames(_, _)
PutNames(s, ks) ==
    IF ks = <<>> THEN s ELSE PutNames(PutName(s, Head(ks)), Tail(ks))

RECURSIVE PutPods(_, _)
PutPods(s, ps) ==
    IF ps = <<>> THEN s ELSE PutPods(PutPod(s, Head(ps)), Tail(ps))

\* faulty variant of PodsToSchedule: every pending pod of the gang is placed
PodsToScheduleAllPending(n_pending, min_available, running_gang_pods) ==
    n_pending

\* lines 262-265: how many pods of the gang this call places
PodsToSchedule(n_pending, min_available, running_gang_pods) ==
    Min2(n_pending, min_available - running_gang_pods)

\* faulty variant of MustPreempt: the preempt flag is not consulted
MustPreemptAlways(pre, needed_nodes) == needed_nodes > 0

\* lines 271 and 278: evictions are looked for only with preempt set and
\* fewer available nodes than pods to place
MustPreempt(pre, needed_nodes) == pre /\ needed_nodes > 0

\* faulty variant of NeededNodes: the available nodes are not counted
NeededNodesIgnoringFree(pods_to_schedule, n_available) == pods_to_schedule

\* line 276: the number of nodes preemption has to free
NeededNodes(pods_to_schedule, n_available) == pods_to_schedule - n_available

\* line 287: a running pod can be preempted for a gang
CanPreempt(pod, gang) == get_pod_priority(pod) < gang.priority

\* faulty variant of PodsToPreempt: one running pod more than needed is
\* taken
PodsToPreemptOneMore(sorted_running, needed_nodes) ==
    Take(sorted_running, needed_nodes + 1)

\* lines 280-292: the loop takes needed_nodes pods from the front of
\* sorted_running
PodsToPreempt(sorted_running, needed_nodes) == Take(sorted_running, needed_nodes)

process_gang(gang, available_nodes, running_pods, pre) ==
    LET EMPTY_SCHEDULE_RESULT ==
            GangResult(<<>>, <<>>, available_nodes, running_pods, "none")
        pending_gang_pods == SelectSeq(gang.pods, is_pending)
        running_gang_pods ==
            Cardinality({i \in 1..Len(gang.pods) :
                            gang.pods[i].name \in Range(NamesOf(running_pods))})
        pods_to_schedule ==
            PodsToSchedule(Len(pending_gang_pods), gang.min_available,
                           running_gang_pods)
        sorted_running == SortRunning(running_pods)
        needed_nodes == NeededNodes(pods_to_schedule, Len(available_nodes))
        must_preempt == MustPreempt(pre, needed_nodes)
        \* the loop "for _ in range(needed_nodes)" returns the empty result
        cannot_preempt ==
            \/ Len(sorted_running) < needed_nodes
            \/ \E i \in 1..needed_nodes : ~CanPreempt(sorted_running[i], gang)
        pods_to_preempt == PodsToPreempt(sorted_running, needed_nodes)
        \* state.get_node(pod.spec.node_name) raises KeyError
        key_error ==
            \E i \in 1..Len(pods_to_preempt) : ~HasNode(pods_to_preempt[i].node_name)
        evictions == IF must_preempt THEN NamesOf(pods_to_preempt) ELSE <<>>
        nodes_after ==
            IF must_preempt
            THEN PutNames(available_nodes,
                          [i \in 1..Len(pods_to_preempt) |-> pods_to_preempt[i].node_name])
            ELSE available_nodes
        running_after ==
            IF must_preempt
            THEN SelectSeq(running_pods,
                           LAMBDA p : p.name \notin Range(NamesOf(pods_to_preempt)))
            ELSE running_pods
        bound_nodes == Take(nodes_after, pods_to_schedule)
        bound_pods == Take(pending_gang_pods, pods_to_schedule)
        bindings ==
            [i \in 1..pods_to_schedule |->
                [pod |-> bound_pods[i].name, node |-> bound_nodes[i]]]
    IN  IF pending_gang_pods = <<>> THEN EMPTY_SCHEDULE_RESULT
        ELSE IF pods_to_schedule <= 0
        THEN GangResult(<<>>, <<>>, available_nodes, running_pods, "none")
        ELSE IF must_preempt /\ cannot_preempt THEN EMPTY_SCHEDULE_RESULT
        ELSE IF must_preempt /\ key_error
        THEN GangResult(<<>>, <<>>, available_nodes, running_pods, "KeyError")
        ELSE IF Len(nodes_after) < pods_to_schedule THEN EMPTY_SCHEDULE_RESULT
        ELSE GangResult(bindings, evictions,
                        SelectSeq(nodes_after, LAMBDA n : n \notin Range(bound_nodes)),
                        PutPods(running_after, bound_pods), "none")

(***************************************************************************)
(* The snapshots the model starts from.  The nodes are the first n of      *)
(* NodeNames and pod i of the list is named PodNames[i].  The last pod of  *)
(* the list is a Pending pod of the scheduler: schedule does nothing       *)
(* without one, and it never compares a pending pod with a pod that is     *)
(* not pending, neither by name nor by position.                           *)
(***************************************************************************)
MkAnnotations(group, min_available) ==
    [k \in (IF group = "" THEN {} ELSE {GROUP_NAME_ANNOTATION})
           \cup (IF min_available = "" THEN {} ELSE {MIN_AVAILABLE_ANNOTATION})
       |-> IF k = GROUP_NAME_ANNOTATION THEN group ELSE min_available]

MkPod(name, sched, node, phase, prio, group, min_available) ==
    [name |-> name, scheduler_name |-> sched, node_name |-> node,
     phase |-> phase, priority |-> prio,
     annotations |-> MkAnnotations(group, min_available)]

\* Pending, without a node name or with one (a pod can be bound and not yet
\* started)
PendingPlacements == {<<"Pending", "">>, <<"Pending", NodeNames[1]>>}

\* Running on a node of the snapshot, or in a phase that is neither
\* Pending nor Running
OtherPlacements(n) ==
    {<<"Succeeded", "">>} \cup {<<"Running", NodeNames[k]>> : k \in 1..n}

OwnPods(name, placements) ==
    {MkPod(name, SchedulerName, pl[2], pl[1], prio, g, m) :
        pl \in placements, prio \in Priorities,
        g \in {""} \cup GroupNames, m \in {""} \cup MinAvailableValues}

\* pods of another scheduler, or with no scheduler name
ForeignPods(name) ==
    {MkPod(name, "other", "", "Pending", 10, "", ""),
     MkPod(name, "", NodeNames[1], "Running", 10, "", "")}

PodChoices(i, k, n) ==
    IF i = k THEN OwnPods(PodNames[i], PendingPlacements)
    ELSE OwnPods(PodNames[i], PendingPlacements \cup OtherPlacements(n))
         \cup ForeignPods(PodNames[i])

\* the pod lists of k pods over n nodes, from position i on
RECURSIVE PodLists(_, _, _)
PodLists(i, k, n) ==
    IF i > k THEN {<<>>}
    ELSE {<<p>> \o rest : p \in PodChoices(i, k, n), rest \in PodLists(i + 1, k, n)}

(***************************************************************************)
(* The list objects.  A Python name holds a reference to a list object:    *)
(* heap gives the elements of every object a name is bound to, ref the     *)
(* object of each name.  A comprehension, list() and [] build a new        *)
(* object; sort() and extend() change the object they are called on, and   *)
(* with it what every name bound to that object shows; an assignment       *)
(* binds a name to the object of another.  The names followed are the two  *)
(* lists of the snapshot (state.nodes, state.pods) and the four lists      *)
(* schedule carries through its loop and returns.  in_scope_pods and       *)
(* pending_gangs are new lists as well (lines 379, 386); no name of the    *)
(* snapshot or of the result is bound to them.  No statement of core.py    *)
(* assigns to an attribute of a pod or of a node: the elements of a list   *)
(* are the pods and nodes as they are.                                     *)
(***************************************************************************)
NoObject == 0

NoObjects == [o \in {} |-> <<>>]

Unbound ==
    [state_nodes |-> NoObject, state_pods |-> NoObject,
     current_nodes |-> NoObject, current_pods |-> NoObject,
     all_bindings |-> NoObject, all_evictions |-> NoObject]

\* a new object: the first that is not in use
NewObject(h) ==
    CHOOSE o \in 1..(Cardinality(DOMAIN h) + 1) :
        /\ o \notin DOMAIN h
        /\ \A i \in 1..(o - 1) : i \in DOMAIN h

\* the object o holds the elements
Store(h, o, elements) ==
    [i \in DOMAIN h \cup {o} |-> IF i = o THEN elements ELSE h[i]]

\* the objects that a name of r is bound to; the others are gone
Held(h, r) ==
    [o \in DOMAIN h \cap {r[n] : n \in DOMAIN r} |-> h[o]]

\* get_state, lines 25-30: the lists that list_node and list_namespaced_pod
\* return are the nodes and pods of the NodePodState
SnapshotObjects(node_list, pod_list) ==
    LET ns == NewObject(NoObjects)
        h1 == Store(NoObjects, ns, node_list)
        ps == NewObject(h1)
    IN  [heap |-> Store(h1, ps, pod_list),
         ref |-> [Unbound EXCEPT !.state_nodes = ns, !.state_pods = ps]]

Fresh ==
    /\ pc = "start"
    /\ raised = "none"
    /\ pending_gangs = <<>>
    /\ idx = 1
    /\ current_nodes = <<>>
    /\ current_pods = <<>>
    /\ all_bindings = <<>>
    /\ all_evictions = <<>>
    /\ trace = <<>>
    /\ prev = [called |-> FALSE, evictions |-> <<>>, bindings |-> <<>>,
               stale |-> FALSE, applied |-> FALSE, recycled |-> FALSE]
    /\ api_calls = <<>>
    /\ heap = SnapshotObjects(nodes, pods).heap
    /\ ref = SnapshotObjects(nodes, pods).ref

Init ==
    /\ \E n \in 1..MaxNodes : nodes = SubSeq(NodeNames, 1, n)
    /\ \E k \in 1..MaxPods : pods \in PodLists(1, k, Len(nodes))
    /\ preempt \in BOOLEAN
    /\ cycle = 1
    /\ Fresh

\* the orders in which a list can arrive
Reordered(s) ==
    {[i \in 1..Len(s) |-> s[f[i]]] : f \in Permutations(1..Len(s))}

(***************************************************************************)
(* Snapshots whose lists are handed to schedule in any order: pods of the  *)
(* scheduler only, Pending without a node or Running on a node of the      *)
(* snapshot.                                                               *)
(***************************************************************************)
PermPriorities == {10, 20}

PermPods(name, placements) ==
    {MkPod(name, SchedulerName, pl[2], pl[1], prio, g, m) :
        pl \in placements, prio \in PermPriorities,
        g \in {""} \cup GroupNames, m \in {""} \cup MinAvailableValues}

PermChoices(i, k, n) ==
    IF i = k THEN PermPods(PodNames[i], {<<"Pending", "">>})
    ELSE PermPods(PodNames[i],
                  {<<"Pending", "">>} \cup {<<"Running", NodeNames[j]>> : j \in 1..n})

RECURSIVE PermLists(_, _, _)
PermLists(i, k, n) ==
    IF i > k THEN {<<>>}
    ELSE {<<p>> \o rest : p \in PermChoices(i, k, n), rest \in PermLists(i + 1, k, n)}

InitPerm ==
    /\ \E n \in 1..MaxNodes : nodes \in Reordered(SubSeq(NodeNames, 1, n))
    /\ \E k \in 1..MaxPods :
          \E listed \in PermLists(1, k, Len(nodes)) : pods \in Reordered(listed)
    /\ preempt \in BOOLEAN
    /\ cycle = 1
    /\ Fresh

(***************************************************************************)
(* Snapshots whose pods carry the min-available value under the key of     *)
(* core.py, under the key of core_k8s.py, or not at all.                   *)
(***************************************************************************)
MkPodWithKey(name, node, phase, prio, group, key, min_available) ==
    [name |-> name, scheduler_name |-> SchedulerName, node_name |-> node,
     phase |-> phase, priority |-> prio,
     annotations |->
        [k \in (IF group = "" THEN {} ELSE {GROUP_NAME_ANNOTATION})
               \cup (IF key = "" THEN {} ELSE {key})
           |-> IF k = GROUP_NAME_ANNOTATION THEN group ELSE min_available]]

KeyPods(name, placements) ==
    {MkPodWithKey(name, pl[2], pl[1], prio, g, key, m) :
        pl \in placements, prio \in PermPriorities, g \in {""} \cup GroupNames,
        key \in {"", MIN_AVAILABLE_ANNOTATION, MIN_AVAILABLE_ANNOTATION_K8S},
        m \in MinAvailableValues}

KeyChoices(i, k, n) ==
    IF i = k THEN KeyPods(PodNames[i], {<<"Pending", "">>})
    ELSE KeyPods(PodNames[i],
                 {<<"Pending", "">>} \cup {<<"Running", NodeNames[j]>> : j \in 1..n})

RECURSIVE KeyLists(_, _, _)
KeyLists(i, k, n) ==
    IF i > k THEN {<<>>}
    ELSE {<<p>> \o rest : p \in KeyChoices(i, k, n), rest \in KeyLists(i + 1, k, n)}

InitKey ==
    /\ \E n \in 1..MaxNodes : nodes = SubSeq(NodeNames, 1, n)
    /\ \E k \in 1..MaxPods : pods \in KeyLists(1, k, Len(nodes))
    /\ preempt \in BOOLEAN
    /\ cycle = 1
    /\ Fresh

(***************************************************************************)
(* Snapshots that break the integrity of the input: a min-available value  *)
(* that is not a decimal integer, a Running pod on a node that is not in   *)
(* the node list.                                                          *)
(***************************************************************************)
MalformedValue == "abc"

DanglingNode == NodeNames[Len(NodeNames)]

InvalidPods(name, placements) ==
    {MkPod(name, SchedulerName, pl[2], pl[1], prio, g, m) :
        pl \in placements, prio \in PermPriorities, g \in {""} \cup GroupNames,
        m \in {"", MalformedValue} \cup MinAvailableValues}

InvalidChoices(i, k, n) ==
    IF i = k THEN InvalidPods(PodNames[i], {<<"Pending", "">>})
    ELSE InvalidPods(PodNames[i],
                     {<<"Pending", "">>, <<"Running", DanglingNode>>}
                         \cup {<<"Running", NodeNames[j]>> : j \in 1..n})

RECURSIVE InvalidLists(_, _, _)
InvalidLists(i, k, n) ==
    IF i > k THEN {<<>>}
    ELSE {<<p>> \o rest : p \in InvalidChoices(i, k, n),
                          rest \in InvalidLists(i + 1, k, n)}

InitInvalid ==
    /\ \E n \in 1..MaxNodes : nodes = SubSeq(NodeNames, 1, n)
    /\ \E k \in 1..MaxPods : pods \in InvalidLists(1, k, Len(nodes))
    /\ preempt \in BOOLEAN
    /\ cycle = 1
    /\ Fresh

(***************************************************************************)
(* schedule, lines 379-409: filter, group, sort.                           *)
(***************************************************************************)
\* faulty variant of in_scope_pods: the scheduler name is not compared
in_scope_pods_unfiltered == pods

in_scope_pods == SelectSeq(pods, LAMBDA p : p.scheduler_name = SchedulerName)

running_pods_of_scheduler == SelectSeq(in_scope_pods, is_running)

\* faulty variant of nodes_with_scheduler_pods: the Running pods of every
\* scheduler occupy their node
nodes_with_running_pods ==
    {pods[i].node_name : i \in {j \in 1..Len(pods) : is_running(pods[j])}}

nodes_with_scheduler_pods ==
    {running_pods_of_scheduler[i].node_name : i \in 1..Len(running_pods_of_scheduler)}

\* faulty variant of available_nodes_of_snapshot: occupied nodes are kept
all_nodes_of_snapshot == SortNodes(nodes)

available_nodes_of_snapshot ==
    SortNodes(SelectSeq(nodes, LAMBDA n : n \notin nodes_with_scheduler_pods))

sorted_pending_gangs ==
    SortGangs(SelectSeq(get_gang_info(in_scope_pods),
                        LAMBDA g : \E i \in 1..Len(g.pods) : is_pending(g.pods[i])))

\* faulty variant of available_nodes_object: available_nodes is bound to
\* the list of the snapshot
available_nodes_is_state_nodes(h) == ref.state_nodes

\* line 394: the comprehension builds a new list, to which available_nodes
\* is bound
available_nodes_object(h) == NewObject(h)

\* lines 382-408: the lists schedule has built when its loop begins.
\* running_pods is a new list (382); available_nodes is a list of the
\* nodes without a pod of the scheduler (394), sorted in place (397);
\* all_bindings and all_evictions are new empty lists (405, 406);
\* current_nodes and current_pods are bound to the objects of
\* available_nodes and running_pods (407, 408)
ObjectsAtLoop ==
    LET rp == NewObject(heap)
        h1 == Store(heap, rp, running_pods_of_scheduler)
        an == available_nodes_object(h1)
        h2 == Store(h1, an,
                    SelectSeq(nodes, LAMBDA n : n \notin nodes_with_scheduler_pods))
        h3 == [h2 EXCEPT ![an] = SortNodes(@)]
        ab == NewObject(h3)
        h4 == Store(h3, ab, <<>>)
        ae == NewObject(h4)
        h5 == Store(h4, ae, <<>>)
    IN  [heap |-> h5,
         ref |-> [ref EXCEPT !.current_pods = rp, !.current_nodes = an,
                             !.all_bindings = ab, !.all_evictions = ae]]

\* lines 314-315 and 414-417, for a result with bindings: process_gang has
\* built two new lists for its result; schedule extends its two lists of
\* actions in place and binds current_nodes and current_pods to the lists
\* of the result
ObjectsAfter(result) ==
    LET an == NewObject(heap)
        h1 == Store(heap, an, result.available_nodes)
        rp == NewObject(h1)
        h2 == Store(h1, rp, result.running_pods)
        h3 == [h2 EXCEPT ![ref.all_bindings] = @ \o result.bindings]
        h4 == [h3 EXCEPT ![ref.all_evictions] = @ \o result.evictions]
        r == [ref EXCEPT !.current_nodes = an, !.current_pods = rp]
    IN  [heap |-> Held(h4, r), ref |-> r]

\* what the snapshot shows after the step: the elements of its two lists
SnapshotSeen ==
    /\ nodes' = heap'[ref'.state_nodes]
    /\ pods' = heap'[ref'.state_pods]

Start ==
    /\ pc = "start"
    /\ IF get_gang_info_raises(in_scope_pods)
       THEN /\ pc' = "raised"
            /\ raised' = "ValueError"
            /\ UNCHANGED <<pending_gangs, current_nodes, current_pods, heap,
                           ref>>
       ELSE /\ pc' = "loop"
            /\ raised' = "none"
            /\ pending_gangs' = sorted_pending_gangs
            /\ current_nodes' = available_nodes_of_snapshot
            /\ current_pods' = running_pods_of_scheduler
            /\ heap' = ObjectsAtLoop.heap
            /\ ref' = ObjectsAtLoop.ref
    /\ idx' = 1
    /\ all_bindings' = <<>>
    /\ all_evictions' = <<>>
    /\ trace' = <<>>
    /\ SnapshotSeen
    /\ UNCHANGED <<preempt, cycle, prev, api_calls>>

\* faulty variant of NextIdx: the loop stops at the first gang that is
\* not placed
NextIdxStopOnSkip(i, result) ==
    IF result.bindings = <<>> THEN Len(pending_gangs) + 1 ELSE i + 1

\* line 411: the for loop goes on to the next gang, whatever the result
NextIdx(i, result) == i + 1

(***************************************************************************)
(* schedule, lines 411-417: one iteration of the loop over pending_gangs.  *)
(***************************************************************************)
ProcessGang ==
    /\ pc = "loop"
    /\ idx <= Len(pending_gangs)
    /\ LET gang == pending_gangs[idx]
           result == process_gang(gang, current_nodes, current_pods, preempt)
       IN  IF result.raised # "none"
           THEN /\ pc' = "raised"
                /\ raised' = result.raised
                /\ UNCHANGED <<idx, current_nodes, current_pods, all_bindings,
                               all_evictions, trace, heap, ref>>
           ELSE /\ pc' = "loop"
                /\ raised' = "none"
                /\ idx' = NextIdx(idx, result)
                /\ trace' = Append(trace,
                                   [gang |-> gang, bindings |-> result.bindings,
                                    evictions |-> result.evictions,
                                    nodes_before |-> current_nodes,
                                    pods_before |-> current_pods])
                /\ IF result.bindings # <<>>
                   THEN /\ all_bindings' = all_bindings \o result.bindings
                        /\ all_evictions' = all_evictions \o result.evictions
                        /\ current_nodes' = result.available_nodes
                        /\ current_pods' = result.running_pods
                        /\ heap' = ObjectsAfter(result).heap
                        /\ ref' = ObjectsAfter(result).ref
                   ELSE UNCHANGED <<all_bindings, all_evictions, current_nodes,
                                    current_pods, heap, ref>>
    /\ SnapshotSeen
    /\ UNCHANGED <<preempt, pending_gangs, cycle, prev, api_calls>>

(***************************************************************************)
(* schedule, lines 419-422: return the SchedulingActions.                  *)
(***************************************************************************)
Return ==
    /\ pc = "loop"
    /\ idx > Len(pending_gangs)
    /\ pc' = "done"
    /\ UNCHANGED <<nodes, pods, preempt, raised, pending_gangs, idx, current_nodes,
                   current_pods, all_bindings, all_evictions, trace, cycle, prev,
                   api_calls, heap, ref>>

\* schedule as a function of the snapshot it is given
Next == Start \/ ProcessGang \/ Return

Spec == Init /\ [][Next]_vars

\* schedule on snapshots whose lists are in any order
SpecPerm == InitPerm /\ [][Next]_vars

(***************************************************************************)
(* main and execute_scheduling_loop, call by call: schedule is called with *)
(* the default preempt = True; evict is called for every eviction, then    *)
(* bind for every binding; main sleeps and the next loop starts with       *)
(* get_state, which calls list_node and list_namespaced_pod.  Every call   *)
(* to the API returns or raises; get_state, evict and bind re-raise the    *)
(* ApiException, execute_scheduling_loop and main do not catch it, so main *)
(* ends ("crashed").  The first snapshot has been read.                    *)
(***************************************************************************)
InitDriver ==
    /\ \E n \in 1..MaxNodes : nodes = SubSeq(NodeNames, 1, n)
    /\ \E k \in 1..MaxPods : pods \in PermLists(1, k, Len(nodes))
    /\ preempt = TRUE
    /\ cycle = 1
    /\ Fresh

EvictCalls == SelectSeq(api_calls, LAMBDA c : c.op = "evict")

BindCalls == SelectSeq(api_calls, LAMBDA c : c.op = "bind")

\* faulty variant of CanBind: a binding is submitted at any time
CanBindAnytime == TRUE

\* lines 108-112: the loop over the bindings starts when the loop over the
\* evictions has ended
CanBind == Len(EvictCalls) = Len(all_evictions)

Evict ==
    /\ pc = "done"
    /\ Len(EvictCalls) < Len(all_evictions)
    /\ \E ok \in BOOLEAN :
          /\ api_calls' = Append(api_calls,
                                 [op |-> "evict",
                                  pod |-> all_evictions[Len(EvictCalls) + 1],
                                  node |-> "", ok |-> ok])
          /\ pc' = IF ok THEN "done" ELSE "crashed"
    /\ UNCHANGED <<nodes, pods, preempt, raised, pending_gangs, idx, current_nodes,
                   current_pods, all_bindings, all_evictions, trace, cycle, prev,
                   heap, ref>>

Bind ==
    /\ pc = "done"
    /\ CanBind
    /\ Len(BindCalls) < Len(all_bindings)
    /\ \E ok \in BOOLEAN :
          /\ api_calls' = Append(api_calls,
                                 [op |-> "bind",
                                  pod |-> all_bindings[Len(BindCalls) + 1].pod,
                                  node |-> all_bindings[Len(BindCalls) + 1].node,
                                  ok |-> ok])
          /\ pc' = IF ok THEN "done" ELSE "crashed"
    /\ UNCHANGED <<nodes, pods, preempt, raised, pending_gangs, idx, current_nodes,
                   current_pods, all_bindings, all_evictions, trace, cycle, prev,
                   heap, ref>>

\* both loops of execute_scheduling_loop have ended
AllSubmitted ==
    /\ Len(EvictCalls) = Len(all_evictions)
    /\ Len(BindCalls) = Len(all_bindings)

\* driver.py, lines 33-35: execute_scheduling_loop has returned, and with
\* it the snapshot and the actions are gone; main sleeps and calls it
\* again; its first statement is get_state
Sleep ==
    /\ pc = "done"
    /\ AllSubmitted
    /\ pc' = "list_node"
    /\ heap' = NoObjects
    /\ ref' = Unbound
    /\ UNCHANGED <<nodes, pods, preempt, raised, pending_gangs, idx, current_nodes,
                   current_pods, all_bindings, all_evictions, trace, cycle, prev,
                   api_calls>>

\* get_state, line 25: list_node returns the nodes, in any order, or
\* raises
ListNodes ==
    /\ pc = "list_node"
    /\ \E ok \in BOOLEAN :
          IF ok
          THEN /\ nodes' \in Reordered(nodes)
               /\ heap' = Store(heap, NewObject(heap), nodes')
               /\ ref' = [ref EXCEPT !.state_nodes = NewObject(heap)]
               /\ pc' = "list_pods"
          ELSE /\ pc' = "crashed"
               /\ UNCHANGED <<nodes, heap, ref>>
    /\ UNCHANGED <<pods, preempt, raised, pending_gangs, idx, current_nodes,
                   current_pods, all_bindings, all_evictions, trace, cycle, prev,
                   api_calls>>

(***************************************************************************)
(* What the cluster has made of the calls of the cycle when the pods are   *)
(* listed again: nothing yet (the listing shows the pods as they were);    *)
(* every bound pod Running on its target and every evicted pod gone; or    *)
(* every bound pod Running on its target and every evicted pod back as a   *)
(* Pending pod without a node, with the annotations it had.                *)
(***************************************************************************)
TargetOf(name) ==
    LET i == CHOOSE j \in 1..Len(all_bindings) :
                /\ all_bindings[j].pod = name
                /\ \A l \in (j + 1)..Len(all_bindings) : all_bindings[l].pod # name
    IN  all_bindings[i].node

AppliedPods ==
    LET kept == SelectSeq(pods, LAMBDA p : p.name \notin Range(all_evictions))
    IN  [i \in 1..Len(kept) |->
            IF \E j \in 1..Len(all_bindings) : all_bindings[j].pod = kept[i].name
            THEN [kept[i] EXCEPT !.phase = "Running",
                                 !.node_name = TargetOf(kept[i].name)]
            ELSE kept[i]]

RecycledPods ==
    [i \in 1..Len(pods) |->
        IF \E j \in 1..Len(all_bindings) : all_bindings[j].pod = pods[i].name
        THEN [pods[i] EXCEPT !.phase = "Running",
                             !.node_name = TargetOf(pods[i].name)]
        ELSE IF pods[i].name \in Range(all_evictions)
        THEN [pods[i] EXCEPT !.phase = "Pending", !.node_name = ""]
        ELSE pods[i]]

ClusterPods == {pods, AppliedPods, RecycledPods}

\* the result of the call that has returned, and which of the three the
\* listing shows
PrevAfter(listed) ==
    [called |-> TRUE, evictions |-> all_evictions, bindings |-> all_bindings,
     stale |-> listed = pods, applied |-> listed = AppliedPods,
     recycled |-> listed = RecycledPods]

\* get_state, lines 28-30: list_namespaced_pod returns the pods, in any
\* order, or raises; with the pods the snapshot is complete and schedule is
\* called on it.  No more than MaxCycles calls of schedule are followed.
ListPods ==
    /\ pc = "list_pods"
    /\ \E ok \in BOOLEAN :
          IF ok
          THEN /\ cycle < MaxCycles
               /\ \E listed \in ClusterPods :
                     /\ pods' \in Reordered(listed)
                     /\ prev' = PrevAfter(listed)
               /\ heap' = Store(heap, NewObject(heap), pods')
               /\ ref' = [ref EXCEPT !.state_pods = NewObject(heap)]
               /\ cycle' = cycle + 1
               /\ api_calls' = <<>>
               /\ pc' = "start"
          ELSE /\ pc' = "crashed"
               /\ UNCHANGED <<pods, prev, cycle, api_calls, heap, ref>>
    /\ UNCHANGED <<nodes, preempt, raised, pending_gangs, idx, current_nodes,
                   current_pods, all_bindings, all_evictions, trace>>

NextDriver ==
    Start \/ ProcessGang \/ Return \/ Evict \/ Bind \/ Sleep \/ ListNodes \/ ListPods

SpecDriver == InitDriver /\ [][NextDriver]_vars

(***************************************************************************)
(* The driver cycle after cycle (driver.py, while True), on snapshots with *)
(* pods of the scheduler of one of three priorities, Pending without a     *)
(* node or Running on a node of the snapshot.  The API server lists nodes  *)
(* and pods in the order it listed them before.                            *)
(***************************************************************************)
CyclePods(name, placements) ==
    {MkPod(name, SchedulerName, pl[2], pl[1], prio, g, m) :
        pl \in placements, prio \in Priorities,
        g \in {""} \cup GroupNames, m \in {""} \cup MinAvailableValues}

CycleChoices(i, k, n) ==
    IF i = k THEN CyclePods(PodNames[i], {<<"Pending", "">>})
    ELSE CyclePods(PodNames[i],
                   {<<"Pending", "">>} \cup {<<"Running", NodeNames[j]>> : j \in 1..n})

RECURSIVE CycleLists(_, _, _)
CycleLists(i, k, n) ==
    IF i > k THEN {<<>>}
    ELSE {<<p>> \o rest : p \in CycleChoices(i, k, n), rest \in CycleLists(i + 1, k, n)}

InitCycles ==
    /\ \E n \in 1..MaxNodes : nodes = SubSeq(NodeNames, 1, n)
    /\ \E k \in 1..MaxPods : pods \in CycleLists(1, k, Len(nodes))
    /\ preempt = TRUE
    /\ cycle = 1
    /\ Fresh

\* list_node, as ListNodes, with the nodes in the order of the last listing
ListNodesInOrder ==
    /\ pc = "list_node"
    /\ \E ok \in BOOLEAN :
          IF ok
          THEN /\ heap' = Store(heap, NewObject(heap), nodes)
               /\ ref' = [ref EXCEPT !.state_nodes = NewObject(heap)]
               /\ pc' = "list_pods"
          ELSE /\ pc' = "crashed"
               /\ UNCHANGED <<heap, ref>>
    /\ UNCHANGED <<nodes, pods, preempt, raised, pending_gangs, idx, current_nodes,
                   current_pods, all_bindings, all_evictions, trace, cycle, prev,
                   api_calls>>

\* list_namespaced_pod, as ListPods, with the pods in the order of the last
\* listing; the cycles are followed without end and counted up to MaxCycles
ListPodsInOrder ==
    /\ pc = "list_pods"
    /\ \E ok \in BOOLEAN :
          IF ok
          THEN /\ \E listed \in ClusterPods :
                     /\ pods' = listed
                     /\ prev' = PrevAfter(listed)
               /\ heap' = Store(heap, NewObject(heap), pods')
               /\ ref' = [ref EXCEPT !.state_pods = NewObject(heap)]
               /\ cycle' = IF cycle < MaxCycles THEN cycle + 1 ELSE cycle
               /\ api_calls' = <<>>
               /\ pc' = "start"
          ELSE /\ pc' = "crashed"
               /\ UNCHANGED <<pods, prev, cycle, api_calls, heap, ref>>
    /\ UNCHANGED <<nodes, preempt, raised, pending_gangs, idx, current_nodes,
                   current_pods, all_bindings, all_evictions, trace>>

NextCycles ==
    \/ Start \/ ProcessGang \/ Return
    \/ Evict \/ Bind \/ Sleep \/ ListNodesInOrder \/ ListPodsInOrder

\* weak fairness of Start, with ENABLED <<Start>>_vars written as the
\* guard of Start
FairStart == []<>(pc # "start") \/ []<><<Start>>_vars

\* weak fairness of ProcessGang, with ENABLED <<ProcessGang>>_vars written
\* as the guard of ProcessGang
FairProcessGang ==
    []<>~(pc = "loop" /\ idx <= Len(pending_gangs)) \/ []<><<ProcessGang>>_vars

\* schedule runs to its end, every call to the API returns or raises, and
\* the loop of main never stops by itself: a step that can be taken is
\* taken
SpecCycles ==
    /\ InitCycles
    /\ [][NextCycles]_vars
    /\ FairStart
    /\ FairProcessGang
    /\ WF_vars(Return)
    /\ WF_vars(Evict)
    /\ WF_vars(Bind)
    /\ WF_vars(Sleep)
    /\ WF_vars(ListNodesInOrder)
    /\ WF_vars(ListPodsInOrder)

\* schedule on the snapshots of InitInvalid
SpecInvalid == InitInvalid /\ [][Next]_vars

\* schedule on the snapshots of InitKey
SpecKey == InitKey /\ [][Next]_vars

(***************************************************************************)
(* Vocabulary of the properties.                                           *)
(***************************************************************************)
Done == pc = "done"

\* the loop of schedule is running or has returned: trace, all_bindings and
\* all_evictions are those of the call on the snapshot in pods
InCall == pc \in {"loop", "done"}

PodOf(name) == CHOOSE p \in Range(pods) : p.name = name

BoundNames == {all_bindings[i].pod : i \in 1..Len(all_bindings)}

EvictedNames == Range(all_evictions)

Gangs == Range(get_gang_info(in_scope_pods))

GangOfPod(name) == CHOOSE g \in Gangs : name \in Range(NamesOf(g.pods))

BoundOf(g) == BoundNames \cap Range(NamesOf(g.pods))

PendingOf(g) == {p \in Range(g.pods) : is_pending(p)}

RunningOf(g) == {p \in Range(g.pods) : is_running(p)}

\* the calls of process_gang that changed the result of schedule
Emitted == {i \in 1..Len(trace) : trace[i].bindings # <<>>}

(***************************************************************************)
(* C1  Ownership: every pod named in the bindings schedule returns has     *)
(* the scheduler's name and is Pending in the snapshot; pods of other      *)
(* schedulers or without a scheduler name are never bound.                 *)
(***************************************************************************)
C1_Ownership ==
    InCall => \A i \in 1..Len(all_bindings) :
                /\ PodOf(all_bindings[i].pod).scheduler_name = SchedulerName
                /\ PodOf(all_bindings[i].pod).phase = "Pending"

\* a call that bound a pod while a Pending pod of another scheduler and a
\* Running pod of the scheduler were in the snapshot
C1_Witness ==
    /\ Done
    /\ all_bindings # <<>>
    /\ \E p \in Range(pods) : p.scheduler_name # SchedulerName /\ p.phase = "Pending"
    /\ \E p \in Range(pods) : p.scheduler_name = SchedulerName /\ p.phase = "Running"

(***************************************************************************)
(* C2  Node uniqueness per cycle: the target nodes of the bindings of one  *)
(* schedule call are pairwise distinct.                                    *)
(***************************************************************************)
C2_NodeUniqueness ==
    Done => \A i, j \in 1..Len(all_bindings) :
                i # j => all_bindings[i].node # all_bindings[j].node

(***************************************************************************)
(* C3  No self-eviction: with preemption enabled, no pod name is both in   *)
(* the bindings and in the evictions of one schedule call.                 *)
(***************************************************************************)
C3_NoSelfEviction ==
    (Done /\ preempt) => BoundNames \cap EvictedNames = {}

(***************************************************************************)
(* C4  Gang atomicity: if a pod of group G is bound, the pods of G bound   *)
(* by the call plus the Running pods of G in the snapshot are at least     *)
(* G's minAvailable (the min_available get_gang_info gives the gang).      *)
(***************************************************************************)
C4_GangAtomicity ==
    Done => \A g \in Gangs :
                BoundOf(g) # {} =>
                    Cardinality(BoundOf(g)) + Cardinality(RunningOf(g)) >= g.min_available

(***************************************************************************)
(* C5  Priority respect: when a Running pod o is evicted while the pending *)
(* pods of group P are placed, the max priority of P is strictly greater   *)
(* than the max priority of o's own group.                                 *)
(***************************************************************************)
C5_PriorityRespect ==
    InCall => \A i \in Emitted : \A j \in 1..Len(trace[i].evictions) :
                 is_running(PodOf(trace[i].evictions[j])) =>
                    trace[i].gang.priority > GangOfPod(trace[i].evictions[j]).priority

(***************************************************************************)
(* C6  Eviction requires preemption: schedule called with preempt = false  *)
(* returns no eviction.                                                    *)
(***************************************************************************)
C6_EvictionRequiresPreemption ==
    (InCall /\ ~preempt) => all_evictions = <<>>

\* preempt = false, and a gang that had pods to place found no available
\* node while a running pod of lower priority was there to take
C6_Witness ==
    /\ Done
    /\ ~preempt
    /\ \E i \in 1..Len(trace) :
          /\ trace[i].bindings = <<>>
          /\ trace[i].nodes_before = <<>>
          /\ trace[i].gang.min_available >= 1
          /\ \A p \in Range(trace[i].gang.pods) : is_pending(p)
          /\ \E p \in Range(trace[i].pods_before) : CanPreempt(p, trace[i].gang)

(***************************************************************************)
(* C7  The core never fails: on a valid snapshot (unique node and pod      *)
(* names, every Running pod of the scheduler on a node of the snapshot,    *)
(* integer min-available values) schedule raises no exception.             *)
(***************************************************************************)
C7_NeverFails == pc # "raised"

(***************************************************************************)
(* C8  All-or-nothing group placement: the number of pods of a group that  *)
(* one schedule call binds is 0 or the number of its Pending pods.         *)
(***************************************************************************)
C8_AllOrNothing ==
    Done => \A g \in Gangs :
                Cardinality(BoundOf(g)) \in {0, Cardinality(PendingOf(g))}

(***************************************************************************)
(* C9  A group never evicts its own running members: every pod evicted     *)
(* while a group with Running and Pending pods is placed belongs to        *)
(* another group.                                                          *)
(***************************************************************************)
C9_NoOwnEviction ==
    InCall => \A i \in Emitted : \A j \in 1..Len(trace[i].evictions) :
                 RunningOf(trace[i].gang) # {} =>
                    GroupKey(PodOf(trace[i].evictions[j])) # trace[i].gang.group_name

(***************************************************************************)
(* C10  Idempotence after apply: schedule on the snapshot obtained by      *)
(* applying every binding and completing every eviction of the previous    *)
(* call (every bound pod Running on its target, every evicted pod gone)    *)
(* returns no binding.                                                     *)
(***************************************************************************)
C10_IdempotenceAfterApply ==
    (Done /\ prev.called /\ prev.applied) => all_bindings = <<>>

(***************************************************************************)
(* C11  Stability under permutation: schedule on the same nodes and pods   *)
(* in another list order (the API server lists the pods as they were, in   *)
(* any order) returns the same evictions and the same bindings in the same *)
(* order, also for a group with more pending pods than it may place.       *)
(***************************************************************************)
C11_PermutationStable ==
    (Done /\ prev.called /\ prev.stale) =>
        /\ all_evictions = prev.evictions
        /\ all_bindings = prev.bindings

(***************************************************************************)
(* C12  Lowest-priority victims: the pods evicted for a gang are the       *)
(* lowest-priority pods of the running set at that point; no running pod   *)
(* left in place has a strictly lower priority than a pod evicted for the  *)
(* same gang.                                                              *)
(***************************************************************************)
C12_LowestPriorityVictims ==
    InCall => \A i \in Emitted :
                 \A e \in Range(trace[i].pods_before) :
                 \A p \in Range(trace[i].pods_before) :
                    (/\ e.name \in Range(trace[i].evictions)
                     /\ p.name \notin Range(trace[i].evictions))
                    => get_pod_priority(p) >= get_pod_priority(e)

\* a gang was placed by evicting a pod while a running pod of strictly
\* higher priority, itself below the gang's priority, was left in place
C12_Witness ==
    /\ Done
    /\ \E i \in Emitted :
          \E e \in Range(trace[i].pods_before) :
          \E p \in Range(trace[i].pods_before) :
             /\ e.name \in Range(trace[i].evictions)
             /\ p.name \notin Range(trace[i].evictions)
             /\ get_pod_priority(p) > get_pod_priority(e)
             /\ CanPreempt(p, trace[i].gang)

(***************************************************************************)
(* The snapshot of test_schedule_with_preemption: nodes node-a and node-b, *)
(* high-priority (Pending, 20), low-priority (Running on node-a, 5) and    *)
(* medium-priority (Pending, 10), here named pod1, pod2 and pod3, which    *)
(* keeps the order of the names.                                           *)
(***************************************************************************)
PreemptionScenarioPods ==
    <<MkPod("pod1", SchedulerName, "", "Pending", 20, "", ""),
      MkPod("pod2", SchedulerName, "node-a", "Running", 5, "", ""),
      MkPod("pod3", SchedulerName, "", "Pending", 10, "", "")>>

InPreemptionScenario ==
    /\ nodes = <<"node-a", "node-b">>
    /\ pods = PreemptionScenarioPods
    /\ preempt

(***************************************************************************)
(* C13  Free nodes are used before preemption: a gang that is placed       *)
(* causes evictions only when the available nodes are fewer than the pods  *)
(* it places, and then exactly (pods placed - available nodes) of them.    *)
(* In the preemption scenario the high-priority pod takes the free node-b  *)
(* and the medium-priority pod takes node-a after low-priority is evicted. *)
(***************************************************************************)
C13_FreeNodesFirst ==
    /\ InCall => \A i \in Emitted :
          Len(trace[i].evictions) =
             IF Len(trace[i].nodes_before) < Len(trace[i].bindings)
             THEN Len(trace[i].bindings) - Len(trace[i].nodes_before)
             ELSE 0
    /\ (Done /\ InPreemptionScenario) =>
          /\ [pod |-> "pod1", node |-> "node-b"] \in Range(all_bindings)
          /\ [pod |-> "pod3", node |-> "node-a"] \in Range(all_bindings)
          /\ Range(all_evictions) = {"pod2"}

\* a gang placed two pods with one available node and one eviction
C13_Witness ==
    /\ Done
    /\ \E i \in Emitted :
          /\ Len(trace[i].nodes_before) = 1
          /\ Len(trace[i].bindings) = 2
          /\ Len(trace[i].evictions) = 1

(***************************************************************************)
(* C14  Basic preemption scenario, as the spec states it: high-priority is *)
(* bound to node-a, the node of the evicted pod, and medium-priority to    *)
(* node-b.                                                                 *)
(***************************************************************************)
C14_ScenarioAsStated ==
    (Done /\ InPreemptionScenario) =>
        /\ all_evictions = <<"pod2">>
        /\ all_bindings = <<[pod |-> "pod1", node |-> "node-a"],
                            [pod |-> "pod3", node |-> "node-b"]>>

(***************************************************************************)
(* C14 as amended: low-priority is evicted, high-priority is bound first,  *)
(* to the free node-b, and medium-priority second, to node-a, the node of  *)
(* the evicted pod.                                                        *)
(***************************************************************************)
C14_ScenarioAsTested ==
    (Done /\ InPreemptionScenario) =>
        /\ all_evictions = <<"pod2">>
        /\ all_bindings = <<[pod |-> "pod1", node |-> "node-b"],
                            [pod |-> "pod3", node |-> "node-a"]>>

\* schedule has returned on the preemption scenario with two bindings
C14_Witness ==
    /\ Done
    /\ InPreemptionScenario
    /\ cycle = 1
    /\ Len(all_bindings) = 2

(***************************************************************************)
(* Lexicographic packing.  The case: no pod of the scheduler is Running    *)
(* (every node is free), its Pending pods carry no group annotation and    *)
(* have one priority.  The expected result pairs the i-th pending pod by   *)
(* name with the i-th node by name, as far as pods and nodes go.           *)
(***************************************************************************)
NthByName(S, i) ==
    CHOOSE x \in S : Cardinality({y \in S : Rank[y] < Rank[x]}) = i - 1

PendingNames == {p.name : p \in {q \in Range(in_scope_pods) : is_pending(q)}}

PackingCase ==
    /\ \A p \in Range(in_scope_pods) : ~is_running(p)
    /\ \A p \in Range(in_scope_pods) :
          is_pending(p) => get_annotation(p, GROUP_NAME_ANNOTATION, "") = ""
    /\ \A p, q \in Range(in_scope_pods) :
          (is_pending(p) /\ is_pending(q)) => get_pod_priority(p) = get_pod_priority(q)

PackedBindings ==
    [i \in 1..Min2(Cardinality(PendingNames), Len(nodes)) |->
        [pod |-> NthByName(PendingNames, i), node |-> NthByName(Range(nodes), i)]]

(***************************************************************************)
(* C15  Lexicographic packing: when all pending pods are ungrouped and of   *)
(* equal priority and every node is free, the bindings pair the i-th pod   *)
(* by name with the i-th node by name, in that order, whatever the order   *)
(* of the input lists.                                                     *)
(***************************************************************************)
C15_PackingAsStated ==
    (Done /\ PackingCase) => all_bindings = PackedBindings

\* the nodes that host a Running pod of the scheduler in the snapshot
OccupiedNodes ==
    {p.node_name : p \in {q \in Range(pods) : /\ q.scheduler_name = SchedulerName
                                                /\ q.phase = "Running"
                                                /\ q.node_name # ""}}

(***************************************************************************)
(* C16  With preempt = false no binding targets a node that hosts a        *)
(* Running pod of the scheduler in the snapshot; when every node hosts     *)
(* one, the bindings and the evictions are empty.                          *)
(***************************************************************************)
C16_OccupiedNodesUntouched ==
    (InCall /\ ~preempt) =>
        /\ \A i \in 1..Len(all_bindings) : all_bindings[i].node \notin OccupiedNodes
        /\ Range(nodes) \subseteq OccupiedNodes =>
              (all_bindings = <<>> /\ all_evictions = <<>>)

\* preempt = false, each of two nodes hosts a Running pod of the scheduler,
\* a third pod is Pending, its gang was attempted and the call has returned
C16_Witness ==
    /\ Done
    /\ ~preempt
    /\ cycle = 1
    /\ Len(nodes) = 2
    /\ Range(nodes) \subseteq OccupiedNodes
    /\ is_pending(pods[3])
    /\ Len(trace) = 1
    /\ all_bindings = <<>>

\* the bindings, and the evictions, of the first n calls of process_gang
RECURSIVE TraceBindings(_)
TraceBindings(n) ==
    IF n = 0 THEN <<>> ELSE TraceBindings(n - 1) \o trace[n].bindings

RECURSIVE TraceEvictions(_)
TraceEvictions(n) ==
    IF n = 0 THEN <<>> ELSE TraceEvictions(n - 1) \o trace[n].evictions

(***************************************************************************)
(* C17  Skip semantics: a gang that is not placed contributes no binding   *)
(* and no eviction and leaves the working sets of available nodes and      *)
(* running pods as they were before its attempt; no gang is attempted      *)
(* twice in a call, and every pending gang is attempted, also after a gang *)
(* that was skipped.                                                       *)
(***************************************************************************)
C17_SkipSemantics ==
    InCall =>
        /\ \A i \in 1..Len(trace) :
              trace[i].bindings = <<>> =>
                 /\ trace[i].evictions = <<>>
                 /\ IF i < Len(trace)
                    THEN /\ trace[i + 1].nodes_before = trace[i].nodes_before
                         /\ trace[i + 1].pods_before = trace[i].pods_before
                    ELSE /\ current_nodes = trace[i].nodes_before
                         /\ current_pods = trace[i].pods_before
        /\ all_bindings = TraceBindings(Len(trace))
        /\ all_evictions = TraceEvictions(Len(trace))
        /\ \A i, j \in 1..Len(trace) :
              i # j => trace[i].gang.group_name # trace[j].gang.group_name
        /\ \A i \in 1..Len(trace) : trace[i].gang = pending_gangs[i]
        /\ Done => Len(trace) = Len(pending_gangs)

\* a gang whose pods are all Pending found too few nodes and was skipped,
\* and a gang later in the order was placed
C17_Witness ==
    /\ Done
    /\ \E i, j \in 1..Len(trace) :
          /\ i < j
          /\ trace[i].bindings = <<>>
          /\ \A p \in Range(trace[i].gang.pods) : is_pending(p)
          /\ trace[i].gang.min_available > Len(trace[i].nodes_before)
          /\ trace[j].bindings # <<>>

\* the number of Pending pods of a gang
NumPending(g) == Cardinality({i \in 1..Len(g.pods) : is_pending(g.pods[i])})

(***************************************************************************)
(* C18  Group ordering: the gangs with a pending pod are attempted in the  *)
(* order of the key (descending priority, then descending number of        *)
(* pending pods, then ascending group name); among gangs of equal priority *)
(* the one with more pending pods is attempted first.                      *)
(***************************************************************************)
C18_GroupOrdering ==
    InCall => \A i, j \in 1..Len(pending_gangs) :
                 i < j =>
                    TupleLess(<<0 - pending_gangs[i].priority,
                                0 - NumPending(pending_gangs[i]),
                                Rank[pending_gangs[i].group_name]>>,
                              <<0 - pending_gangs[j].priority,
                                0 - NumPending(pending_gangs[j]),
                                Rank[pending_gangs[j].group_name]>>)

\* the pods of the scheduler that belong to the group of that name
MembersOf(group_name) ==
    {p \in Range(pods) : p.scheduler_name = SchedulerName /\ GroupKey(p) = group_name}

(***************************************************************************)
(* C19  As stated: the min_available of a gang is the maximum of the       *)
(* min-available values of its Pending pods only (1 for a pod without the  *)
(* annotation); the values of Running or other members do not contribute.  *)
(***************************************************************************)
C19_PendingPodsOnly ==
    InCall => \A i \in 1..Len(pending_gangs) :
                 pending_gangs[i].min_available =
                    MaxOf({PodMinAvailable(p) :
                             p \in {q \in MembersOf(pending_gangs[i].group_name) :
                                       is_pending(q)}})

(***************************************************************************)
(* C19 as amended: the min_available of a gang is the maximum of the       *)
(* min-available values of all its pods, whatever their phase (1 for a pod *)
(* without the annotation).                                                *)
(***************************************************************************)
C19_AllMembers ==
    InCall => \A i \in 1..Len(pending_gangs) :
                 pending_gangs[i].min_available =
                    MaxOf({PodMinAvailable(p) :
                             p \in MembersOf(pending_gangs[i].group_name)})

\* a gang whose only annotated pod is Running: the gang was attempted with
\* min_available 2 and its pending pod was bound
C19_Witness ==
    /\ Done
    /\ \E i \in Emitted :
          /\ trace[i].gang.min_available = 2
          /\ \E p \in Range(trace[i].gang.pods) : is_running(p) /\ PodMinAvailable(p) = 2
          /\ \A p \in Range(trace[i].gang.pods) : is_pending(p) => PodMinAvailable(p) = 1

(***************************************************************************)
(* C20  The minimum-available threshold is read from the annotation whose  *)
(* key is exactly custom-scheduling.k8s.io/min-available: a gang whose     *)
(* pending pods all carry that annotation with the integer value n is      *)
(* scheduled with min_available = n.                                       *)
(***************************************************************************)
C20_MinAvailableKey ==
    InCall => \A i \in 1..Len(pending_gangs) : \A n \in {IntLiterals[m] : m \in MinAvailableValues} :
                 (\A p \in Range(pending_gangs[i].pods) :
                     is_pending(p) =>
                        /\ MIN_AVAILABLE_ANNOTATION_K8S \in DOMAIN p.annotations
                        /\ IntLiterals[p.annotations[MIN_AVAILABLE_ANNOTATION_K8S]] = n)
                 => pending_gangs[i].min_available = n

\* the pods of the scheduler whose min-available value int() rejects
MalformedPods == {p \in Range(in_scope_pods) : MinAvailableRaises(p)}

(***************************************************************************)
(* C21  Malformed min-available: a pod whose min-available value is not a  *)
(* decimal integer counts as 1 and schedule still returns a result; the    *)
(* anomaly is never raised as an error.                                    *)
(***************************************************************************)
C21_MalformedMinAvailable ==
    MalformedPods # {} => raised # "ValueError"

\* the Running pods of the scheduler on a node that is not in the snapshot
DanglingPods ==
    {p \in Range(in_scope_pods) : is_running(p) /\ p.node_name \notin Range(nodes)}

(***************************************************************************)
(* C22  Dangling node reference: when a Running pod of the scheduler names *)
(* a node that is not in the node list, schedule still returns a result    *)
(* and that pod is neither bound nor evicted, with or without preemption.  *)
(***************************************************************************)
C22_DanglingNodeIgnored ==
    (DanglingPods # {} /\ MalformedPods = {}) =>
        /\ pc # "raised"
        /\ InCall => \A p \in DanglingPods : p.name \notin BoundNames \cup EvictedNames

(***************************************************************************)
(* C23  Driver ordering: in one execution of the scheduling loop every     *)
(* eviction schedule returned is submitted before any binding, and each    *)
(* list is submitted in its own order.                                     *)
(***************************************************************************)
C23_DriverOrdering ==
    /\ api_calls = EvictCalls \o BindCalls
    /\ BindCalls # <<>> => Len(EvictCalls) = Len(all_evictions)
    /\ Len(EvictCalls) <= Len(all_evictions)
    /\ Len(BindCalls) <= Len(all_bindings)
    /\ \A i \in 1..Len(EvictCalls) : EvictCalls[i].pod = all_evictions[i]
    /\ \A i \in 1..Len(BindCalls) :
          /\ BindCalls[i].pod = all_bindings[i].pod
          /\ BindCalls[i].node = all_bindings[i].node

\* a cycle with an eviction and two bindings, all of them submitted
C23_Witness ==
    /\ pc = "done"
    /\ all_evictions # <<>>
    /\ Len(all_bindings) >= 2
    /\ Len(api_calls) = Len(all_evictions) + Len(all_bindings)

(***************************************************************************)
(* C24  Driver error policy: when an evict or bind call fails, the         *)
(* remaining evictions and bindings of the cycle are still submitted and   *)
(* the driver loop goes on to the next cycle.                              *)
(***************************************************************************)
C24_DriverGoesOn ==
    (\E i \in 1..Len(api_calls) : ~api_calls[i].ok) => pc # "crashed"

(***************************************************************************)
(* The case of test_schedule_pod_groups_mixed_priorities: preemption is    *)
(* enabled, one gang has Pending pods and no Running pod, every other pod  *)
(* of the scheduler is Running on a node of its own in the snapshot, with  *)
(* a priority below the gang's, and there are nodes for all the pending    *)
(* pods.                                                                   *)
(***************************************************************************)
MixedPriorityCase ==
    /\ preempt
    /\ Len(pending_gangs) = 1
    /\ LET g == pending_gangs[1]
       IN  /\ \A p \in Range(g.pods) : is_pending(p)
           /\ Len(g.pods) <= Len(nodes)
           /\ \A p \in Range(in_scope_pods) :
                 p \notin Range(g.pods) =>
                    /\ is_running(p)
                    /\ p.node_name \in Range(nodes)
                    /\ get_pod_priority(p) < g.priority
                    /\ \A q \in Range(in_scope_pods) :
                          (is_running(q) /\ q.name # p.name) => q.node_name # p.node_name

(***************************************************************************)
(* C25  Group priority drives preemption: the priority of a gang is the    *)
(* maximum priority of its pods and decides what its pending pods may      *)
(* take, so every pending pod of the gang is bound, also a pod whose own   *)
(* priority is below that of a running pod, when a pod of its gang has a   *)
(* higher priority than the running pods.                                  *)
(***************************************************************************)
C25_GroupPriorityDrives ==
    (Done /\ MixedPriorityCase) =>
        /\ pending_gangs[1].priority =
              MaxOf({get_pod_priority(p) : p \in Range(pending_gangs[1].pods)})
        /\ \A p \in Range(pending_gangs[1].pods) : p.name \in BoundNames

\* the nodes that host a Running pod, but none of the scheduler
ForeignOnlyNodes ==
    {n \in Range(nodes) :
        /\ n \notin OccupiedNodes
        /\ \E p \in Range(pods) : /\ p.scheduler_name # SchedulerName
                                   /\ p.phase = "Running"
                                   /\ p.node_name = n}

(***************************************************************************)
(* C26  Foreign occupancy is ignored: a node whose only Running pods       *)
(* belong to other schedulers, or to none, is among the available nodes    *)
(* the first gang is offered, with or without preemption, and no pod of    *)
(* another scheduler is evicted to use it.                                 *)
(***************************************************************************)
C26_ForeignOccupancyIgnored ==
    InCall =>
        /\ Len(trace) >= 1 => ForeignOnlyNodes \subseteq Range(trace[1].nodes_before)
        /\ \A e \in EvictedNames : PodOf(e).scheduler_name = SchedulerName

\* a pending pod of the scheduler was bound, without any eviction, to a
\* node that hosts a Running pod without a scheduler name
C26_Witness ==
    /\ Done
    /\ cycle = 1
    /\ all_evictions = <<>>
    /\ \E i \in 1..Len(all_bindings) : all_bindings[i].node \in ForeignOnlyNodes

(***************************************************************************)
(* C27  The core mutates nothing: in every step from the call of schedule  *)
(* to its return the node list and the pod list of the snapshot keep their *)
(* elements and their order, and every pod its phase, node name, priority  *)
(* and annotations; the two lists of actions that schedule returns are     *)
(* fresh: they are objects built in the call, which did not exist when     *)
(* schedule was called, they are two objects, they are not a list of the   *)
(* snapshot nor a list schedule has worked on, and they hold the actions   *)
(* returned.                                                               *)
(***************************************************************************)
ReturnedListsFresh ==
    /\ ref.all_bindings \notin {NoObject, ref.state_nodes, ref.state_pods,
                                 ref.current_nodes, ref.current_pods}
    /\ ref.all_evictions \notin {NoObject, ref.state_nodes, ref.state_pods,
                                  ref.current_nodes, ref.current_pods}
    /\ ref.all_bindings # ref.all_evictions
    /\ heap[ref.all_bindings] = all_bindings
    /\ heap[ref.all_evictions] = all_evictions

C27_CoreMutatesNothing ==
    [][(pc = "start" \/ pc = "loop") =>
          /\ nodes' = nodes
          /\ pods' = pods
          /\ ref'.state_nodes = ref.state_nodes
          /\ ref'.state_pods = ref.state_pods
          /\ (pc = "start" /\ pc' = "loop") =>
                 /\ ref'.all_bindings \notin DOMAIN heap
                 /\ ref'.all_evictions \notin DOMAIN heap
          /\ pc = "loop" =>
                 /\ ref'.all_bindings = ref.all_bindings
                 /\ ref'.all_evictions = ref.all_evictions
          /\ pc' = "done" => ReturnedListsFresh']_vars

\* schedule has returned evictions and bindings on a snapshot whose nodes
\* and pods are not in name order
C27_Witness ==
    /\ Done
    /\ Len(nodes) = 2
    /\ Len(pods) >= 2
    /\ Rank[nodes[1]] > Rank[nodes[2]]
    /\ Rank[pods[1].name] > Rank[pods[2].name]
    /\ all_bindings # <<>>
    /\ all_evictions # <<>>

(***************************************************************************)
(* C28  Among the pending gangs of equal priority the real gangs           *)
(* (min_available > 1) are attempted before the gangs treated as single    *)
(* pods (min_available <= 1).                                              *)
(***************************************************************************)
C28_GangsBeforeSinglePods ==
    InCall => \A i, j \in 1..Len(pending_gangs) :
                 (/\ pending_gangs[i].priority = pending_gangs[j].priority
                  /\ ~is_single_pod(pending_gangs[i])
                  /\ is_single_pod(pending_gangs[j]))
                 => i < j

(***************************************************************************)
(* C30  Every pod evicted by a call has an own priority strictly below the *)
(* priority of the gang whose placement caused the eviction, whatever the  *)
(* priority of the victim's own gang, and is a Running pod of the          *)
(* scheduler in the snapshot.                                              *)
(***************************************************************************)
C30_VictimsBelowGangAndRunning ==
    InCall => \A i \in Emitted : \A j \in 1..Len(trace[i].evictions) :
                 LET victim == PodOf(trace[i].evictions[j])
                 IN  /\ get_pod_priority(victim) < trace[i].gang.priority
                     /\ victim.scheduler_name = SchedulerName
                     /\ is_running(victim)

\* a cycle in which schedule has returned no binding and no eviction
QuietCycle == pc = "done" /\ all_bindings = <<>> /\ all_evictions = <<>>

(***************************************************************************)
(* C29: when every eviction and every binding of a cycle is carried out    *)
(* and every evicted pod comes back as a Pending pod of its group, the     *)
(* driver reaches a cycle in which schedule returns no binding and no      *)
(* eviction: no pods keep evicting each other for ever.  The behaviours    *)
(* the property speaks of are those in which no call raises and every      *)
(* listing shows the calls of the cycle carried out in that way.           *)
(***************************************************************************)
C29_NoOscillation ==
    <>(\/ QuietCycle
       \/ pc = "raised"
       \/ pc = "crashed"
       \/ prev.called /\ ~prev.recycled)

\* the Running pods of the scheduler are on nodes of the snapshot, no two
\* of them on the same node
RunningOnDistinctNodes ==
    /\ \A i \in 1..Len(running_pods_of_scheduler) :
          HasNode(running_pods_of_scheduler[i].node_name)
    /\ \A i, j \in 1..Len(running_pods_of_scheduler) :
          i # j => running_pods_of_scheduler[i].node_name
                      # running_pods_of_scheduler[j].node_name

(***************************************************************************)
(* C31  No eviction is wasted: on a snapshot whose Running pods of the     *)
(* scheduler are on pairwise distinct nodes of the snapshot, the result of *)
(* schedule has no more evictions than bindings, the node of every evicted *)
(* pod is the target of a binding of the result, and a gang that           *)
(* contributes evictions contributes bindings.                             *)
(***************************************************************************)
C31_NoWastedEviction ==
    (InCall /\ RunningOnDistinctNodes) =>
        /\ Len(all_evictions) <= Len(all_bindings)
        /\ \A e \in Range(all_evictions) :
              \E j \in 1..Len(all_bindings) :
                 all_bindings[j].node = PodOf(e).node_name
        /\ \A i \in 1..Len(trace) :
              trace[i].evictions # <<>> => trace[i].bindings # <<>>

\* on such a snapshot a gang was placed by evicting a Running pod, and a
\* pod was bound to the node of the evicted pod
C31_Witness ==
    /\ Done
    /\ RunningOnDistinctNodes
    /\ \E e \in Range(all_evictions) :
          /\ is_running(PodOf(e))
          /\ \E j \in 1..Len(all_bindings) :
                all_bindings[j].node = PodOf(e).node_name

\* the pending pods of the gang of entry i of the trace
PendingMembers(i) ==
    Cardinality({k \in 1..Len(trace[i].gang.pods) :
                    is_pending(trace[i].gang.pods[k])})

\* the members of that gang in the running set its attempt started from
RunningMembers(i) ==
    Cardinality({k \in 1..Len(trace[i].gang.pods) :
                    \E r \in 1..Len(trace[i].pods_before) :
                       trace[i].pods_before[r].name = trace[i].gang.pods[k].name})

\* min_available minus the members counted as running
StillNeeded(i) == trace[i].gang.min_available - RunningMembers(i)

(***************************************************************************)
(* C32  Placement count per gang: a gang that is placed receives exactly   *)
(* as many bindings as the smaller of the number of its pending pods and   *)
(* min_available minus the number of its members counted as running; a     *)
(* gang for which that number is zero or less receives no binding and      *)
(* causes no eviction, also when nodes are free.                           *)
(***************************************************************************)
C32_PlacementCount ==
    InCall => \A i \in 1..Len(trace) :
        /\ trace[i].bindings # <<>> =>
              /\ Len(trace[i].bindings) <= PendingMembers(i)
              /\ Len(trace[i].bindings) <= StillNeeded(i)
              /\ \/ Len(trace[i].bindings) = PendingMembers(i)
                 \/ Len(trace[i].bindings) = StillNeeded(i)
        /\ (PendingMembers(i) <= 0 \/ StillNeeded(i) <= 0) =>
              /\ trace[i].bindings = <<>>
              /\ trace[i].evictions = <<>>

\* a gang with a pending pod and a running member had its min_available
\* met and got no binding while a node was free, and another gang of the
\* same call was placed
C32_Witness ==
    /\ Done
    /\ \E i, j \in 1..Len(trace) :
          /\ PendingMembers(i) > 0
          /\ RunningMembers(i) > 0
          /\ StillNeeded(i) <= 0
          /\ trace[i].nodes_before # <<>>
          /\ trace[i].bindings = <<>>
          /\ trace[j].bindings # <<>>

====
